---- MODULE Spec2Model ----
(***************************************************************************)
(* State-machine model of the lexical tool-suggestion engine               *)
(* (src/src/suggester): tokenizer, prefix trie, field-aware inverted       *)
(* index and the SuggestionEngine with its sessions and catalog.           *)
(*                                                                         *)
(* Text is a sequence of one-character strings.  Scores are fixed-point    *)
(* integers: one unit is 1/ScoreUnit, field weights and idf values are     *)
(* scaled so that every product and every decayed score is an integer.     *)
(*                                                                         *)
(* The engine's _term_to_tools and _term_lengths maps are written by       *)
(* add_tools and _rebuild_index and read nowhere; they are not modelled.   *)
(* Neither are the logger, the telemetry flag and the reranker flag.       *)
(***************************************************************************)
EXTENDS Integers, Sequences, FiniteSets, TLC

VARIABLES
    sessions,      \* SuggestionEngine._sessions : session id -> buffer
    catalog,       \* SuggestionEngine._catalog  : name -> ToolSpec
    trie,          \* SuggestionEngine._trie     : path -> TrieNode
    inv_index,     \* SuggestionEngine._inv_index: term_to_tools, df, tools
    anchor_vocab,  \* SuggestionEngine._anchor_vocab
    cfg,           \* the constructor's keyword arguments, fixed after __init__
    result,        \* the value the last call returned (<<>> for None)
    last_call,     \* the last API call: operation, session, and how it repeats the one before
    hist,          \* per session: text of the last submit and the deltas fed since
    adds,          \* number of add_tools calls made after construction
    init_args,     \* the keyword arguments __init__ was called with
    raised         \* the exception the last call raised, "none" when it returned

vars == <<sessions, catalog, trie, inv_index, anchor_vocab, cfg, result, last_call, hist, adds,
          init_args, raised>>

(***************************************************************************)
(* Generic helpers                                                         *)
(***************************************************************************)
Range(s) == {s[i] : i \in DOMAIN s}

Get(f, k, d) == IF k \in DOMAIN f THEN f[k] ELSE d

Put(f, k, v) == [x \in (DOMAIN f) \cup {k} |-> IF x = k THEN v ELSE f[x]]

Max2(a, b) == IF a >= b THEN a ELSE b

Min2(a, b) == IF a <= b THEN a ELSE b

RECURSIVE Flatten(_)
Flatten(ss) == IF ss = <<>> THEN <<>> ELSE Head(ss) \o Flatten(Tail(ss))

RECURSIVE SetToSeq(_)
SetToSeq(S) == IF S = {} THEN <<>> ELSE LET x == CHOOSE y \in S : TRUE IN <<x>> \o SetToSeq(S \ {x})

\* lexicographic order on character sequences (Python's str ordering, by code point)
CharCode(c) ==
    CASE c = " " -> 32 [] c = "," -> 44 [] c = "1" -> 49 [] c = ";" -> 59
      [] c = "B" -> 66 [] c = "_" -> 95 [] c = "a" -> 97 [] c = "b" -> 98
      [] c = "c" -> 99 [] c = "d" -> 100 [] c = "e" -> 101 [] c = "m" -> 109
      [] c = "p" -> 112
      [] c = "t" -> 116 [] c = "z" -> 122 [] OTHER -> 0

RECURSIVE StrLess(_, _)
StrLess(a, b) ==
    IF b = <<>> THEN FALSE
    ELSE IF a = <<>> THEN TRUE
    ELSE IF CharCode(Head(a)) # CharCode(Head(b)) THEN CharCode(Head(a)) < CharCode(Head(b))
    ELSE StrLess(Tail(a), Tail(b))

\* sorted(S) for a set of strings
RECURSIVE SortedStrs(_)
SortedStrs(S) ==
    IF S = {} THEN <<>>
    ELSE LET m == CHOOSE x \in S : \A y \in S \ {x} : StrLess(x, y)
         IN <<m>> \o SortedStrs(S \ {m})

(***************************************************************************)
(* tokenizer.py                                                            *)
(***************************************************************************)
IsUpper(c) == c \in {"B"}

IsAlpha(c) == c \in {"a", "b", "c", "d", "e", "m", "p", "t", "z", "B"}

IsDigit(c) == c \in {"1"}

IsSpace(c) == c = " "

\* a character of the regular expression class \w
IsWord(c) == IsAlpha(c) \/ IsDigit(c) \/ c = "_"

\* str.lower() on one character
Lower(c) == IF c = "B" THEN "b" ELSE c

\* " ".join(text.split()): runs of whitespace become one space, the ends are trimmed
RECURSIVE CollapseWs(_, _)
CollapseWs(s, pending) ==
    IF s = <<>> THEN <<>>
    ELSE IF IsSpace(Head(s)) THEN CollapseWs(Tail(s), TRUE)
    ELSE (IF pending THEN <<" ">> ELSE <<>>) \o <<Head(s)>> \o CollapseWs(Tail(s), FALSE)

RECURSIVE DropLeadingWs(_)
DropLeadingWs(s) == IF s # <<>> /\ IsSpace(Head(s)) THEN DropLeadingWs(Tail(s)) ELSE s

\* normalize(text): lowercase, strip diacritics (the identity on the ASCII
\* alphabet of the model), collapse whitespace
normalize(text) == CollapseWs(DropLeadingWs([i \in DOMAIN text |-> Lower(text[i])]), FALSE)

\* _STOPWORDS["pt"] and _STOPWORDS["en"], the members the model alphabet spells
STOPWORDS_pt == {<<"a">>, <<"e">>, <<"d", "e">>, <<"d", "a">>}

STOPWORDS_en == {<<"a">>, <<"a", "t">>}

stopwords(locales) ==
    (IF "pt" \in Range(locales) THEN STOPWORDS_pt ELSE {})
        \cup (IF "en" \in Range(locales) THEN STOPWORDS_en ELSE {})

_is_noise(token) ==
    \/ token = <<>>
    \/ \A i \in DOMAIN token : IsDigit(token[i])
    \/ Len(token) = 1 /\ ~IsAlpha(token[1])
    \/ Cardinality(Range(token)) = 1 /\ Len(token) >= 4

\* the end of the run of word characters that holds position j
RECURSIVE RunEnd(_, _)
RunEnd(norm, j) == IF j < Len(norm) /\ IsWord(norm[j + 1]) THEN RunEnd(norm, j + 1) ELSE j

\* the matches of \w+ in norm, as spans (start, end), 0-based and half-open
WordSpans(norm) ==
    {<<i - 1, RunEnd(norm, i)>> :
        i \in {k \in DOMAIN norm : IsWord(norm[k]) /\ (k = 1 \/ ~IsWord(norm[k - 1]))}}

RECURSIVE SpansInOrder(_)
SpansInOrder(S) ==
    IF S = {} THEN <<>>
    ELSE LET m == CHOOSE x \in S : \A y \in S : x[1] <= y[1]
         IN <<m>> \o SpansInOrder(S \ {m})

\* tokens_with_spans(text, drop_stopwords=False, remove_noise=True): the only
\* way the engine calls it
tokens_with_spans(text) ==
    LET norm == normalize(text)
        all == SpansInOrder(WordSpans(norm))
        item(sp) == [tok |-> SubSeq(norm, sp[1] + 1, sp[2]), span |-> sp]
    IN SelectSeq([i \in DOMAIN all |-> item(all[i])], LAMBDA it : ~_is_noise(it.tok))

tokens(text) == LET st == tokens_with_spans(text) IN [i \in DOMAIN st |-> st[i].tok]

(***************************************************************************)
(* trie.py: a node is reached by the path of characters from the root; the *)
(* children of a node are the paths one character longer                   *)
(***************************************************************************)
TrieNode == [terminal |-> FALSE, terms |-> {}, desc_terms |-> {}]

\* Trie(): the root alone
NewTrie == [p \in {<<>>} |-> TrieNode]

Prefixes(term) == {SubSeq(term, 1, k) : k \in 0 .. Len(term)}

\* an insert that records the term at its own node only
TrieInsert_leaf(tr, term) ==
    [p \in (DOMAIN tr) \cup Prefixes(term) |->
        LET node == Get(tr, p, TrieNode)
        IN IF p # term THEN node
           ELSE [terminal |-> TRUE, terms |-> node.terms \cup {term},
                 desc_terms |-> node.desc_terms \cup {term}]]

\* Trie.insert(term)
TrieInsert(tr, term) ==
    [p \in (DOMAIN tr) \cup Prefixes(term) |->
        LET node == Get(tr, p, TrieNode)
        IN IF p \notin Prefixes(term) THEN node
           ELSE [terminal |-> node.terminal \/ p = term,
                 terms |-> node.terms \cup (IF p = term THEN {term} ELSE {}),
                 desc_terms |-> node.desc_terms \cup {term}]]

\* Trie.prefix_terms(prefix), limit=None: the descendant terms of the node
\* the prefix leads to, nothing when a character of the prefix has no child
prefix_terms(tr, prefix) ==
    IF \A k \in 1 .. Len(prefix) : SubSeq(prefix, 1, k) \in DOMAIN tr
    THEN tr[prefix].desc_terms
    ELSE {}

\* Trie.prefix_terms(prefix, limit=n): list(desc_terms)[:n]; which n terms
\* survive the cut is the set's iteration order
prefix_terms_limit(tr, prefix, limit) ==
    LET all == prefix_terms(tr, prefix)
    IN IF Cardinality(all) <= limit THEN all
       ELSE CHOOSE T \in SUBSET all : Cardinality(T) = limit

(***************************************************************************)
(* inverted_index.py                                                       *)
(***************************************************************************)
Fields == {"name", "description", "keywords", "aliases"}

\* one score unit is 1/ScoreUnit: weights are scaled by 60, idf values by 1000
ScoreUnit == 60000

\* InvertedIndex.field_weights (3.0, 2.0, 1.8, 1.0), times 60
field_weights == [name |-> 180, keywords |-> 120, aliases |-> 108, description |-> 60]

\* InvertedIndex(): empty postings, df and tool registry
NewIndex == [term_to_tools |-> <<>>, df |-> <<>>, tools |-> {}]

\* number of occurrences of t in the sequence terms
Count(terms, t) == Cardinality({i \in DOMAIN terms : terms[i] = t})

\* InvertedIndex.add_tool(tool_id, terms_by_field)
add_tool(idx, tool_id, terms_by_field) ==
    LET seen == UNION {Range(terms_by_field[f]) : f \in DOMAIN terms_by_field} \ {<<>>}
        tf(f, t) == Count(terms_by_field[f], t)
        field_map(t) ==
            LET old == Get(Get(idx.term_to_tools, t, <<>>), tool_id, <<>>)
                fs == (DOMAIN old) \cup {f \in DOMAIN terms_by_field : tf(f, t) > 0}
            IN [f \in fs |-> Get(old, f, 0) + (IF f \in DOMAIN terms_by_field THEN tf(f, t) ELSE 0)]
    IN [term_to_tools |->
            [t \in (DOMAIN idx.term_to_tools) \cup seen |->
                IF t \in seen
                THEN Put(Get(idx.term_to_tools, t, <<>>), tool_id, field_map(t))
                ELSE idx.term_to_tools[t]],
        df |->
            [t \in (DOMAIN idx.df) \cup seen |->
                Get(idx.df, t, 0) + (IF t \in seen THEN 1 ELSE 0)],
        tools |-> idx.tools \cup {tool_id}]

\* floor(1000 * (1 + ln(n / (d + 1e-9)))) for n = 1 + N and d = 1 + df
IdfTable ==
    << <<999, 306, -99, -387, -610, -792, -946, -1080>>,
       <<1693, 999, 594, 306, 83, -99, -253, -387>>,
       <<2098, 1405, 999, 712, 489, 306, 152, 19>>,
       <<2386, 1693, 1287, 999, 776, 594, 440, 306>>,
       <<2609, 1916, 1510, 1223, 999, 817, 663, 529>>,
       <<2791, 2098, 1693, 1405, 1182, 999, 845, 712>> >>

\* InvertedIndex._idf(term), times 1000
_idf(idx, term) == IdfTable[1 + Cardinality(idx.tools)][1 + Get(idx.df, term, 0)]

CeilDiv(a, b) == (a + b - 1) \div b

\* the iteration order of the candidate set: fixed for one set in one
\* process; the model takes the sorted order of the ids
CandidateOrder(S) == SortedStrs(S)

\* list.sort(key=score, reverse=True): descending and stable
SortByScoreDesc(items) ==
    LET n == Len(items)
        rank(i) == Cardinality({j \in 1 .. n : items[j].score > items[i].score})
                   + Cardinality({j \in 1 .. i : items[j].score = items[i].score})
    IN [r \in 1 .. n |-> items[CHOOSE i \in 1 .. n : rank(i) = r]]

\* the score, matched_complete, anchor_hit and contributions of one candidate
\* (the body of the loop over candidates in InvertedIndex.query)
Candidate(idx, tool_id, query_terms, complete_terms, anchor_fields) ==
    LET hit == {t \in query_terms :
                    /\ t \in DOMAIN idx.term_to_tools
                    /\ tool_id \in DOMAIN idx.term_to_tools[t]
                    /\ DOMAIN idx.term_to_tools[t][tool_id] # {}}
        fmap(t) == idx.term_to_tools[t][tool_id]
        RECURSIVE Sum(_)
        Sum(S) == IF S = {} THEN 0
                  ELSE LET x == CHOOSE y \in S : TRUE
                       IN fmap(x[1])[x[2]] * field_weights[x[2]] * _idf(idx, x[1]) + Sum(S \ {x})
    IN [tool_id |-> tool_id,
        score |-> Sum({<<t, f>> \in hit \X Fields : f \in DOMAIN fmap(t)}),
        matched_complete |-> Cardinality(hit \cap complete_terms),
        anchor_hit |-> \E t \in hit : \E f \in DOMAIN fmap(t) : f \in anchor_fields,
        contributions |-> [t \in hit |-> DOMAIN fmap(t)]]

\* the filter with the min_score test left out
Keep_without_min_score(c, require_anchor, required, min_score) ==
    /\ ~(require_anchor /\ ~c.anchor_hit)
    /\ ~(c.matched_complete < required)

\* the filter with the anchor test left out
Keep_without_anchor(c, require_anchor, required, min_score) ==
    /\ ~(c.matched_complete < required)
    /\ ~(c.score < min_score)

\* the three `continue` tests of the loop over candidates
Keep(c, require_anchor, required, min_score) ==
    /\ ~(require_anchor /\ ~c.anchor_hit)
    /\ ~(c.matched_complete < required)
    /\ ~(c.score < min_score)

\* InvertedIndex.query(...): min_complete_hits is {} for None, {n} for n;
\* alpha is in hundredths
query(idx, complete_terms, expanded_terms, require_anchor, anchor_fields, alpha, min_score, top_k, min_complete_hits, query_terms) ==
    IF query_terms = {} THEN <<>>
    ELSE
    LET candidates == UNION {DOMAIN idx.term_to_tools[t] :
                                t \in query_terms \cap DOMAIN idx.term_to_tools}
        required == IF min_complete_hits # {}
                    THEN Max2(0, CHOOSE n \in min_complete_hits : TRUE)
                    ELSE CeilDiv(Cardinality(complete_terms) * Max2(0, Min2(100, alpha)), 100)
        order == CandidateOrder(candidates)
        scored == [i \in DOMAIN order |->
                      Candidate(idx, order[i], query_terms, complete_terms, anchor_fields)]
        kept == SelectSeq(scored, LAMBDA c : Keep(c, require_anchor, required, min_score))
        results == SortByScoreDesc([i \in DOMAIN kept |->
                      [tool_id |-> kept[i].tool_id, score |-> kept[i].score,
                       contributions |-> kept[i].contributions]])
    IN IF top_k > 0 THEN SubSeq(results, 1, Min2(top_k, Len(results))) ELSE results

(***************************************************************************)
(* engine.py: helpers of SuggestionEngine.  An engine value eng is the     *)
(* record of the object's fields: cfg, catalog, trie, inv_index,           *)
(* anchor_vocab.  A ToolSpec is a record whose keys may be missing.        *)
(***************************************************************************)
\* _DEFAULT_INTENT_SEPARATORS, the members the model alphabet spells
_DEFAULT_INTENT_SEPARATORS == <<<<"e">>>>

\* the phrases of tool[key] tokenized, in order (key is "keywords" or "aliases")
RECURSIVE PhraseTokens(_)
PhraseTokens(phrases) ==
    IF phrases = <<>> THEN <<>> ELSE tokens(Head(phrases)) \o PhraseTokens(Tail(phrases))

\* normalize every token and keep the non-empty ones
Normed(vals) == SelectSeq([i \in DOMAIN vals |-> normalize(vals[i])], LAMBDA v : v # <<>>)

\* SuggestionEngine._extract_terms_by_field(tool)
_extract_terms_by_field(tool) ==
    [name |-> Normed(tokens(Get(tool, "name", <<>>))),
     description |-> Normed(tokens(Get(tool, "description", <<>>))),
     keywords |-> Normed(PhraseTokens(Get(tool, "keywords", <<>>))),
     aliases |-> Normed(PhraseTokens(Get(tool, "aliases", <<>>)))]

\* SuggestionEngine._extract_terms(tool): sorted(set(...))
_extract_terms(tool) ==
    SortedStrs(Range(Normed(tokens(Get(tool, "name", <<>>))
                            \o tokens(Get(tool, "description", <<>>))
                            \o PhraseTokens(Get(tool, "keywords", <<>>))
                            \o PhraseTokens(Get(tool, "aliases", <<>>)))))

\* SuggestionEngine._anchor_terms_from_fields(by_field)
_anchor_terms_from_fields(anchor_fields, by_field) ==
    UNION {Range(Get(by_field, f, <<>>)) : f \in anchor_fields}

RECURSIVE InsertAll(_, _)
InsertAll(tr, terms) ==
    IF terms = <<>> THEN tr ELSE InsertAll(TrieInsert(tr, Head(terms)), Tail(terms))

\* the body of the loops of add_tools and _rebuild_index for one tool:
\* trie inserts, InvertedIndex.add_tool, anchor vocabulary update
IndexTool(eng, name, tool) ==
    LET by_field == _extract_terms_by_field(tool)
    IN [eng EXCEPT
            !.trie = InsertAll(@, _extract_terms(tool)),
            !.inv_index = add_tool(@, name, by_field),
            !.anchor_vocab = @ \cup _anchor_terms_from_fields(eng.cfg.anchor_fields, by_field)]

\* add_tools that stops at the first entry without a name
RECURSIVE add_tools_until_nameless(_, _)
add_tools_until_nameless(eng, tools) ==
    IF tools = <<>> THEN eng
    ELSE LET tool == Head(tools)
             name == Get(tool, "name", <<>>)
         IN IF name = <<>> THEN eng
            ELSE add_tools_until_nameless(
                    IndexTool([eng EXCEPT !.catalog = Put(@, name, tool)], name, tool),
                    Tail(tools))

\* SuggestionEngine.add_tools(tools): entries without a name are skipped
RECURSIVE add_tools(_, _)
add_tools(eng, tools) ==
    IF tools = <<>> THEN eng
    ELSE LET tool == Head(tools)
             name == Get(tool, "name", <<>>)
         IN IF name = <<>> THEN add_tools(eng, Tail(tools))
            ELSE add_tools(IndexTool([eng EXCEPT !.catalog = Put(@, name, tool)], name, tool),
                           Tail(tools))

\* a rebuild that leaves the trie, the index and the vocabulary as they are
_rebuild_index_stale(eng) == eng

\* SuggestionEngine._rebuild_index(): fresh trie, index and anchor vocabulary
\* filled from the catalog values
_rebuild_index(eng) ==
    LET RECURSIVE Fill(_, _)
        Fill(e, names) ==
            IF names = <<>> THEN e
            ELSE Fill(IndexTool(e, eng.catalog[Head(names)].name, eng.catalog[Head(names)]),
                      Tail(names))
    IN Fill([eng EXCEPT !.trie = NewTrie, !.inv_index = NewIndex, !.anchor_vocab = {}],
            SortedStrs(DOMAIN eng.catalog))

\* remove_tool that deletes the catalog entry and rebuilds nothing
remove_tool_no_rebuild(eng, name) ==
    IF name \notin DOMAIN eng.catalog THEN eng
    ELSE [eng EXCEPT !.catalog = [n \in (DOMAIN @) \ {name} |-> @[n]]]

\* SuggestionEngine.remove_tool(name)
remove_tool(eng, name) ==
    IF name \notin DOMAIN eng.catalog THEN eng
    ELSE _rebuild_index([eng EXCEPT !.catalog = [n \in (DOMAIN @) \ {name} |-> @[n]]])

(***************************************************************************)
(* engine.py: SuggestionEngine._intent_windows.  Token indices are 0-based *)
(* as in the code; token idx is stream[idx + 1].                           *)
(***************************************************************************)
\* self._stopwords
EngineStopwords(c) == IF c.drop_stopwords THEN stopwords(c.locales) ELSE {}

\* is_stop that takes no token for a stopword
is_stop_never(eng, tok) == FALSE

is_stop(eng, tok) == eng.cfg.drop_stopwords /\ tok \in EngineStopwords(eng.cfg)

is_anchor(eng, tok) == tok \in eng.anchor_vocab

is_separator(eng, tok) == tok \in eng.cfg.intent_separator_set

\* punctuation_boundaries: the token indices whose gap to the previous token
\* holds "," or ";" in the normalized text
punctuation_boundaries(stream, norm) ==
    LET prev_end(idx) == IF idx = 0 THEN 0 ELSE stream[idx].span[2]
    IN {idx \in 0 .. Len(stream) - 1 :
            \E k \in (prev_end(idx) + 1) .. stream[idx + 1].span[1] : norm[k] \in {",", ";"}}

\* the segmentation loop, from token idx on, with the current start and the
\* segments emitted so far
RECURSIVE SegmentLoop(_, _, _, _, _, _)
SegmentLoop(eng, stream, boundaries, idx, start, segs) ==
    LET n == Len(stream)
    IN IF idx >= n
       THEN (IF start < n THEN Append(segs, <<start, n>>) ELSE segs)
       ELSE IF is_separator(eng, stream[idx + 1].tok)
       THEN SegmentLoop(eng, stream, boundaries, idx + 1, idx + 1,
                        IF start < idx THEN Append(segs, <<start, idx>>) ELSE segs)
       ELSE IF idx \in boundaries /\ start < idx
       THEN SegmentLoop(eng, stream, boundaries, idx + 1, idx, Append(segs, <<start, idx>>))
       ELSE SegmentLoop(eng, stream, boundaries, idx + 1, start, segs)

\* segments that never splits: the whole stream is one segment
segments_unsplit(eng, stream, norm) == <<<<0, Len(stream)>>>>

\* segments: the token ranges [start, end) between separators and
\* punctuation boundaries; the whole stream when none was emitted
segments(eng, stream, norm) ==
    LET segs == SegmentLoop(eng, stream, punctuation_boundaries(stream, norm), 0, 0, <<>>)
    IN IF segs = <<>> THEN <<<<0, Len(stream)>>>> ELSE segs

\* the sweep with ranges whose start is not clamped to the segment
RECURSIVE AnchorSweep_unclamped(_, _, _, _)
AnchorSweep_unclamped(radius, seg, anchor_indices, ranges) ==
    IF anchor_indices = <<>> THEN ranges
    ELSE LET anchor_idx == Head(anchor_indices)
             start_idx == Max2(0, anchor_idx - radius)
             end_idx == Min2(seg[2], anchor_idx + radius + 1)
             k == Len(ranges)
         IN IF k > 0 /\ start_idx <= ranges[k][2]
            THEN AnchorSweep_unclamped(radius, seg, Tail(anchor_indices),
                    [ranges EXCEPT ![k] = <<@[1], Max2(@[2], end_idx)>>])
            ELSE AnchorSweep_unclamped(radius, seg, Tail(anchor_indices),
                    Append(ranges, <<start_idx, end_idx>>))

\* the sweep that merges a range into the previous one only when it starts
\* before the previous end
RECURSIVE AnchorSweep_strict(_, _, _, _)
AnchorSweep_strict(radius, seg, anchor_indices, ranges) ==
    IF anchor_indices = <<>> THEN ranges
    ELSE LET anchor_idx == Head(anchor_indices)
             start_idx == Max2(seg[1], anchor_idx - radius)
             end_idx == Min2(seg[2], anchor_idx + radius + 1)
             k == Len(ranges)
         IN IF k > 0 /\ start_idx < ranges[k][2]
            THEN AnchorSweep_strict(radius, seg, Tail(anchor_indices),
                    [ranges EXCEPT ![k] = <<@[1], Max2(@[2], end_idx)>>])
            ELSE AnchorSweep_strict(radius, seg, Tail(anchor_indices),
                    Append(ranges, <<start_idx, end_idx>>))

\* the sweep over the anchor indices of one segment, merging a range into
\* the previous one when it starts at or before the previous end
RECURSIVE AnchorSweep(_, _, _, _)
AnchorSweep(radius, seg, anchor_indices, ranges) ==
    IF anchor_indices = <<>> THEN ranges
    ELSE LET anchor_idx == Head(anchor_indices)
             start_idx == Max2(seg[1], anchor_idx - radius)
             end_idx == Min2(seg[2], anchor_idx + radius + 1)
             k == Len(ranges)
         IN IF k > 0 /\ start_idx <= ranges[k][2]
            THEN AnchorSweep(radius, seg, Tail(anchor_indices),
                    [ranges EXCEPT ![k] = <<@[1], Max2(@[2], end_idx)>>])
            ELSE AnchorSweep(radius, seg, Tail(anchor_indices),
                    Append(ranges, <<start_idx, end_idx>>))

\* the indices of lo .. hi - 1 that are in S, in increasing order
IndicesWhere(lo, hi, S) ==
    SelectSeq([i \in 1 .. Max2(0, hi - lo) |-> lo + i - 1], LAMBDA i : i \in S)

\* window_ranges with one range per anchor, never merged
window_ranges_unmerged(eng, stream, seg) ==
    LET anchor_indices == IndicesWhere(seg[1], seg[2], {idx \in seg[1] .. seg[2] - 1 : is_anchor(eng, stream[idx + 1].tok)})
    IN IF anchor_indices # <<>>
       THEN [i \in DOMAIN anchor_indices |->
                <<Max2(seg[1], anchor_indices[i] - eng.cfg.window_radius),
                  Min2(seg[2], anchor_indices[i] + eng.cfg.window_radius + 1)>>]
       ELSE <<seg>>

\* window_ranges of one segment
window_ranges(eng, stream, seg) ==
    LET anchor_indices == IndicesWhere(seg[1], seg[2], {idx \in seg[1] .. seg[2] - 1 : is_anchor(eng, stream[idx + 1].tok)})
    IN IF anchor_indices # <<>>
       THEN AnchorSweep(eng.cfg.window_radius, seg, anchor_indices, <<>>)
       ELSE <<seg>>

\* the _IntentWindow of one range, or nothing when no token is retained
IntentWindow(eng, stream, win) ==
    LET kept == IndicesWhere(win[1], win[2], {idx \in win[1] .. win[2] - 1 : ~is_stop(eng, stream[idx + 1].tok)})
        scoped_tokens == [i \in DOMAIN kept |-> stream[kept[i] + 1].tok]
        hits == Len(IndicesWhere(win[1], win[2], {idx \in win[1] .. win[2] - 1 : is_anchor(eng, stream[idx + 1].tok)}))
    IN IF scoped_tokens = <<>> THEN <<>>
       ELSE <<[complete_terms |-> SubSeq(scoped_tokens, 1, Len(scoped_tokens) - 1),
               last_prefix |-> scoped_tokens[Len(scoped_tokens)],
               anchor_hits |-> hits]>>

\* every window range of the utterance, segment by segment
AllRanges(eng, text) ==
    LET stream == tokens_with_spans(text)
        segs == segments(eng, stream, normalize(text))
    IN Flatten([i \in DOMAIN segs |-> window_ranges(eng, stream, segs[i])])

\* windows: the materialized windows in position order
windows(eng, text) ==
    LET stream == tokens_with_spans(text)
        rs == AllRanges(eng, text)
    IN Flatten([i \in DOMAIN rs |-> IntentWindow(eng, stream, rs[i])])

\* ordered: anchored windows first, then the others
ordered(eng, text) ==
    LET ws == windows(eng, text)
    IN SelectSeq(ws, LAMBDA w : w.anchor_hits > 0) \o SelectSeq(ws, LAMBDA w : w.anchor_hits <= 0)

\* no truncation
Truncate_none(seq, n) == seq

\* ordered[: max_intents]
Truncate(seq, n) == SubSeq(seq, 1, Min2(n, Len(seq)))

\* SuggestionEngine._intent_windows(text)
_intent_windows(eng, text) ==
    IF tokens_with_spans(text) = <<>> THEN <<>>
    ELSE Truncate(ordered(eng, text), eng.cfg.max_intents)

\* _min_complete_hits that takes the alpha branch for every window
_min_complete_hits_alpha_only(c, anchor_hits, complete_terms) ==
    IF complete_terms # <<>>
    THEN {Max2(1, CeilDiv(Len(complete_terms) * Max2(0, Min2(100, c.alpha)), 100))}
    ELSE {}

\* SuggestionEngine._min_complete_hits: {} is None; alphas are in hundredths
_min_complete_hits(c, anchor_hits, complete_terms) ==
    IF complete_terms # <<>> /\ anchor_hits # 0
    THEN {Max2(1, CeilDiv(anchor_hits * Max2(0, c.anchor_alpha), 100))}
    ELSE IF complete_terms # <<>>
    THEN {Max2(1, CeilDiv(Len(complete_terms) * Max2(0, Min2(100, c.alpha)), 100))}
    ELSE {}

(***************************************************************************)
(* engine.py: SuggestionEngine._suggest                                    *)
(***************************************************************************)
\* the index query of one window
WindowQuery(eng, window, window_top_k) ==
    LET expanded_terms == IF window.last_prefix # <<>>
                          THEN prefix_terms_limit(eng.trie, window.last_prefix, 64)
                          ELSE {}
        complete_terms_set == Range(window.complete_terms)
        query_terms == complete_terms_set \cup expanded_terms
    IN IF query_terms = {} THEN <<>>
       ELSE query(eng.inv_index, complete_terms_set, expanded_terms,
                  eng.cfg.require_anchor, eng.cfg.anchor_fields, eng.cfg.alpha,
                  eng.cfg.min_score, window_top_k,
                  _min_complete_hits(eng.cfg, window.anchor_hits, window.complete_terms),
                  query_terms)

\* a merge that always makes a new entry
Combine_append(c, combined, idx, r) ==
    Append(combined, [name |-> r.tool_id, score |-> r.score \div (idx + 1),
                      reasons |-> r.contributions, hits |-> 1])

\* a merge whose sum takes every window's score in full
Combine_no_decay(c, combined, idx, r) ==
    LET at == {i \in DOMAIN combined : combined[i].name = r.tool_id}
        entry == IF at = {} THEN [name |-> r.tool_id, score |-> 0, reasons |-> <<>>, hits |-> 0]
                 ELSE combined[CHOOSE i \in at : TRUE]
        merged == [name |-> entry.name,
                   score |-> IF c.combine_strategy = "max"
                             THEN Max2(entry.score, r.score)
                             ELSE entry.score + r.score,
                   hits |-> entry.hits + 1,
                   reasons |-> [t \in (DOMAIN entry.reasons) \cup (DOMAIN r.contributions) |->
                                   Get(entry.reasons, t, {}) \cup Get(r.contributions, t, {})]]
    IN IF at = {} THEN Append(combined, merged)
       ELSE [combined EXCEPT ![CHOOSE i \in at : TRUE] = merged]

\* merge one ranked triple of window idx into combined, a sequence of
\* entries in insertion order (the dict keyed by tool name)
Combine(c, combined, idx, r) ==
    LET at == {i \in DOMAIN combined : combined[i].name = r.tool_id}
        entry == IF at = {} THEN [name |-> r.tool_id, score |-> 0, reasons |-> <<>>, hits |-> 0]
                 ELSE combined[CHOOSE i \in at : TRUE]
        merged == [name |-> entry.name,
                   score |-> IF c.combine_strategy = "max"
                             THEN Max2(entry.score, r.score)
                             ELSE entry.score + r.score \div (idx + 1),
                   hits |-> entry.hits + 1,
                   reasons |-> [t \in (DOMAIN entry.reasons) \cup (DOMAIN r.contributions) |->
                                   Get(entry.reasons, t, {}) \cup Get(r.contributions, t, {})]]
    IN IF at = {} THEN Append(combined, merged)
       ELSE [combined EXCEPT ![CHOOSE i \in at : TRUE] = merged]

RECURSIVE CombineRanked(_, _, _, _)
CombineRanked(c, combined, idx, ranked) ==
    IF ranked = <<>> THEN combined
    ELSE CombineRanked(c, Combine(c, combined, idx, Head(ranked)), idx, Tail(ranked))

\* the loop over the windows, from window idx on
RECURSIVE CombineWindows(_, _, _, _, _)
CombineWindows(eng, ws, idx, window_top_k, combined) ==
    IF idx >= Len(ws) THEN combined
    ELSE CombineWindows(eng, ws, idx + 1, window_top_k,
            CombineRanked(eng.cfg, combined, idx, WindowQuery(eng, ws[idx + 1], window_top_k)))

\* the bonus for the tools more than one window returned
WithBonus(c, entry) ==
    IF entry.hits > 1 /\ c.multi_intent_bonus # 0
    THEN [entry EXCEPT !.score = @ + c.multi_intent_bonus * (entry.hits - 1)]
    ELSE entry

\* sorted(...) of the field names
FieldsSorted(fs) == SelectSeq(<<"aliases", "description", "keywords", "name">>, LAMBDA f : f \in fs)

\* the reason string "term: f1,f2; term: ...", as the sequence of its parts
Reason(reasons) ==
    LET ts == SortedStrs(DOMAIN reasons)
    IN [i \in DOMAIN ts |-> [term |-> ts[i], fields |-> FieldsSorted(reasons[ts[i]])]]

Suggestion(eng, entry) ==
    LET tool == Get(eng.catalog, entry.name, [name |-> entry.name, description |-> entry.name])
    IN [id |-> entry.name, kind |-> "tool", score |-> entry.score,
        label |-> Get(tool, "name", entry.name), reason |-> Reason(entry.reasons)]

\* no cut at top_k
TopK_all(ranked_tools, top_k) == ranked_tools

\* ranked_tools[: top_k]
TopK(ranked_tools, top_k) == SubSeq(ranked_tools, 1, Min2(top_k, Len(ranked_tools)))

\* sorted(combined.items(), key=score, reverse=True)
RankCombined(combined) == SortByScoreDesc(combined)

\* SuggestionEngine._suggest(text)
_suggest(eng, text) ==
    LET ws == _intent_windows(eng, text)
        window_top_k == IF eng.cfg.max_intents <= 1 THEN eng.cfg.top_k
                        ELSE Max2(eng.cfg.top_k, eng.cfg.top_k * eng.cfg.max_intents)
        combined == CombineWindows(eng, ws, 0, window_top_k, <<>>)
        bonused == [i \in DOMAIN combined |-> WithBonus(eng.cfg, combined[i])]
        ranked_tools == TopK(RankCombined(bonused), eng.cfg.top_k)
    IN [i \in DOMAIN ranked_tools |-> Suggestion(eng, ranked_tools[i])]

(***************************************************************************)
(* engine.py: SuggestionEngine.__init__                                    *)
(***************************************************************************)
\* (combine_strategy or "max").lower()
StrategyLower(st) ==
    CASE st = "" -> "max" [] st = "MAX" -> "max" [] st = "Sum" -> "sum" [] OTHER -> st

\* the keyword arguments' defaults; alphas in hundredths, scores in units
DefaultArgs ==
    [locales |-> <<"pt", "en">>, top_k |-> 3, min_score |-> ScoreUnit,
     require_anchor |-> TRUE, anchor_fields |-> {"name", "keywords", "aliases"},
     alpha |-> 60, anchor_alpha |-> 50, window_radius |-> 3, drop_stopwords |-> TRUE,
     max_intents |-> 1, intent_separator_tokens |-> <<>>, combine_strategy |-> "max",
     multi_intent_bonus |-> 0]

\* the fields __init__ derives from its keyword arguments
Config(args) ==
    LET raw_separators == IF args.intent_separator_tokens # <<>>
                          THEN args.intent_separator_tokens
                          ELSE _DEFAULT_INTENT_SEPARATORS
    IN [locales |-> args.locales, top_k |-> args.top_k, min_score |-> args.min_score,
        require_anchor |-> args.require_anchor, anchor_fields |-> args.anchor_fields,
        alpha |-> args.alpha, anchor_alpha |-> args.anchor_alpha,
        window_radius |-> Max2(0, args.window_radius),
        drop_stopwords |-> args.drop_stopwords,
        max_intents |-> Max2(1, args.max_intents),
        intent_separator_set |-> Range(Normed(raw_separators)),
        combine_strategy |-> StrategyLower(args.combine_strategy),
        multi_intent_bonus |-> args.multi_intent_bonus]

\* the engine as __init__ leaves it: empty sessions and indexes, then add_tools(tools)
NewEngine(args, tools) ==
    add_tools([cfg |-> Config(args), catalog |-> <<>>, trie |-> NewTrie,
               inv_index |-> NewIndex, anchor_vocab |-> {}], tools)

\* the engine object of the current state
Self ==
    [cfg |-> cfg, catalog |-> catalog, trie |-> trie, inv_index |-> inv_index,
     anchor_vocab |-> anchor_vocab]

(***************************************************************************)
(* Inputs of the model                                                     *)
(***************************************************************************)
MaxBuf == 2
MaxAdds == 1
MaxCatalogAdds == 2

SessionIds == {"s1", "s2"}

TA == [name |-> <<"t", "a">>, description |-> <<"d">>, keywords |-> <<<<"b", "c">>>>]
TB == [name |-> <<"t", "b">>, description |-> <<"B", "c">>, keywords |-> <<<<"p">>>>,
       aliases |-> <<<<"p">>>>]
TM == [name |-> <<"t", "m">>, keywords |-> <<<<"b", "c">>, <<"p">>>>]
\* the entry "ta" again, "bc" moved from its keywords to its description,
\* with a stopword among its keywords
TA2 == [name |-> <<"t", "a">>, description |-> <<"b", "c">>, keywords |-> <<<<"c", "b">>, <<"a">>>>]
\* an entry without a name, an entry with the empty name
TN == [description |-> <<"d">>, keywords |-> <<<<"z">>>>]
TE == [name |-> <<>>, keywords |-> <<<<"z", "a">>>>]

\* catalogs the engine is constructed with
InitialTools == {<<TA, TB>>, <<TA, TB, TM>>}

\* arguments of add_tools
AddedTools == {<<TA2>>, <<TN, TE, TM>>}

\* arguments of remove_tool: two catalog names and a name never added
RemovedNames == {<<"t", "a">>, <<"t", "m">>, <<"z">>}

\* utterances submitted
Texts ==
    { <<"b", "c", " ", "p">>,                     \* two adjacent anchor terms
      <<"b">>,                                    \* a proper prefix of one
      <<"d">>,                                    \* a description-only term
      <<"d", "e", " ", "a">>,                     \* stopwords alone
      <<"z", ",", "z">>,                          \* separators of one configuration, alone
      <<"B", "c", " ", "e", " ", "p">>,           \* two anchored intents
      <<"d", " ", "e", " ", "p">>,                \* the anchor after the separator
      <<"b", "c", " ", "z", " ", "p">>,           \* two anchors around a token that one
                                                  \* configuration has as a separator
      <<"p", ",", "b", "c">> }                    \* a punctuation boundary

\* utterances submitted when two sessions are open
SessionTexts == {<<"b">>, <<"d", " ", "e", " ", "p">>}

\* deltas fed
Deltas == {<<"b">>, <<"c">>}

\* keyword arguments the engine is constructed with
SessionArgs ==
    { [DefaultArgs EXCEPT !.top_k = 2, !.window_radius = 1],
      [DefaultArgs EXCEPT !.combine_strategy = "avg"] }

ArgsPool ==
    SessionArgs \cup
    { [DefaultArgs EXCEPT !.top_k = 1, !.window_radius = 0, !.max_intents = 2,
                          !.combine_strategy = "Sum"],
      [DefaultArgs EXCEPT !.window_radius = 1, !.max_intents = 3,
                          !.multi_intent_bonus = 30000, !.require_anchor = FALSE,
                          !.intent_separator_tokens = <<<<"e">>, <<"z">>>>] }

(***************************************************************************)
(* The state machine                                                       *)
(***************************************************************************)
NoCall ==
    [op |-> "__init__", session_id |-> "", same_arg |-> FALSE, same_session |-> FALSE,
     catalog_arg |-> <<>>]

\* the text argument of the last call: the text submitted or the delta fed
LastArg ==
    IF last_call.op = "submit" THEN sessions[last_call.session_id]
    ELSE IF last_call.op = "feed"
    THEN hist[last_call.session_id].fed[Len(hist[last_call.session_id].fed)]
    ELSE last_call.catalog_arg

\* the record of a call: same_arg says that the previous call was the same
\* operation with the same text, same_session that it named the same session;
\* catalog_arg is the argument of add_tools (a list of entries) or of
\* remove_tool (a name)
Call(op, s, arg) ==
    [op |-> op, session_id |-> s,
     same_arg |-> last_call.op = op /\ LastArg = arg,
     same_session |-> last_call.session_id = s,
     catalog_arg |-> IF op \in {"add_tools", "remove_tool"} THEN arg ELSE <<>>]

\* an __init__ that validates nothing
InitFor_unvalidated(pool, catalogs) ==
    \E args \in pool, tools \in catalogs :
        LET eng == NewEngine(args, tools)
        IN /\ sessions = <<>> /\ hist = <<>> /\ result = <<>> /\ last_call = NoCall
           /\ adds = 0 /\ init_args = args /\ raised = "none"
           /\ cfg = eng.cfg /\ catalog = eng.catalog /\ trie = eng.trie
           /\ inv_index = eng.inv_index /\ anchor_vocab = eng.anchor_vocab

InitFor(pool, catalogs) ==
    \E args \in pool, tools \in catalogs :
        /\ sessions = <<>>
        /\ hist = <<>>
        /\ result = <<>>
        /\ last_call = NoCall
        /\ adds = 0
        /\ init_args = args
        /\ IF StrategyLower(args.combine_strategy) \notin {"max", "sum"}
           THEN \* __init__ raises before any index is built: there is no engine
                /\ raised = "ValueError"
                /\ cfg = <<>> /\ catalog = <<>> /\ trie = <<>> /\ inv_index = <<>>
                /\ anchor_vocab = {}
           ELSE LET eng == NewEngine(args, tools)
                IN /\ raised = "none"
                   /\ cfg = eng.cfg /\ catalog = eng.catalog /\ trie = eng.trie
                   /\ inv_index = eng.inv_index /\ anchor_vocab = eng.anchor_vocab

\* an engine was constructed
Constructed == cfg # <<>>

\* feed with the buffer overwritten by the delta instead of extended
feed_overwrite(s, text_delta) ==
    /\ sessions' = Put(sessions, s, text_delta)
    /\ result' = _suggest(Self, text_delta)
    /\ raised' = "none"

\* feed that suggests on the delta alone
feed_suggest_delta(s, text_delta) ==
    /\ sessions' = Put(sessions, s, Get(sessions, s, <<>>) \o text_delta)
    /\ result' = _suggest(Self, text_delta)
    /\ raised' = "none"

\* SuggestionEngine.feed(text_delta, session_id=s)
feed(s, text_delta) ==
    LET buffer == Get(sessions, s, <<>>) \o text_delta
    IN /\ sessions' = Put(sessions, s, buffer)
       /\ result' = _suggest(Self, buffer)
       /\ raised' = "none"

\* submit that suggests on the old buffer followed by the text
submit_stale(s, text) ==
    /\ sessions' = Put(sessions, s, text)
    /\ result' = _suggest(Self, Get(sessions, s, <<>>) \o text)
    /\ raised' = "none"

\* SuggestionEngine.submit(text, session_id=s)
submit(s, text) ==
    /\ sessions' = Put(sessions, s, text)
    /\ result' = _suggest(Self, text)
    /\ raised' = "none"

\* reset that drops every session
reset_all(s) ==
    /\ sessions' = <<>>
    /\ result' = <<>>
    /\ raised' = "none"

\* reset as `del self._sessions[session_id]`: KeyError on an absent session
reset_del(s) ==
    /\ sessions' = [x \in (DOMAIN sessions) \ {s} |-> sessions[x]]
    /\ result' = <<>>
    /\ raised' = IF s \in DOMAIN sessions THEN "none" ELSE "KeyError"

\* SuggestionEngine.reset(session_id): self._sessions.pop(session_id, None)
reset(s) ==
    /\ sessions' = [x \in (DOMAIN sessions) \ {s} |-> sessions[x]]
    /\ result' = <<>>
    /\ raised' = "none"

Feed(s, text_delta) ==
    /\ Constructed
    /\ Len(Get(sessions, s, <<>>)) + Len(text_delta) <= MaxBuf
    /\ feed(s, text_delta)
    /\ last_call' = Call("feed", s, text_delta)
    /\ hist' = Put(hist, s, [base |-> Get(hist, s, [base |-> <<>>]).base,
                             fed |-> Append(Get(hist, s, [fed |-> <<>>]).fed, text_delta)])
    /\ UNCHANGED <<catalog, trie, inv_index, anchor_vocab, cfg, adds, init_args>>

Submit(s, text) ==
    /\ Constructed
    /\ submit(s, text)
    /\ last_call' = Call("submit", s, text)
    /\ hist' = Put(hist, s, [base |-> text, fed |-> <<>>])
    /\ UNCHANGED <<catalog, trie, inv_index, anchor_vocab, cfg, adds, init_args>>

Reset(s) ==
    /\ Constructed
    /\ reset(s)
    /\ last_call' = Call("reset", s, <<>>)
    /\ hist' = [x \in (DOMAIN hist) \ {s} |-> hist[x]]
    /\ UNCHANGED <<catalog, trie, inv_index, anchor_vocab, cfg, adds, init_args>>

AddToolsUpTo(tools, max_adds) ==
    /\ Constructed
    /\ adds < max_adds
    /\ LET eng == add_tools(Self, tools)
       IN /\ catalog' = eng.catalog /\ trie' = eng.trie
          /\ inv_index' = eng.inv_index /\ anchor_vocab' = eng.anchor_vocab
    /\ adds' = adds + 1
    /\ raised' = "none"
    /\ last_call' = Call("add_tools", "", tools)
    /\ result' = <<>>
    /\ UNCHANGED <<sessions, hist, cfg, init_args>>

AddTools(tools) == AddToolsUpTo(tools, MaxAdds)

RemoveTool(name) ==
    /\ Constructed
    /\ LET eng == remove_tool(Self, name)
       IN /\ catalog' = eng.catalog /\ trie' = eng.trie
          /\ inv_index' = eng.inv_index /\ anchor_vocab' = eng.anchor_vocab
    /\ raised' = "none"
    /\ last_call' = Call("remove_tool", "", name)
    /\ result' = <<>>
    /\ UNCHANGED <<sessions, hist, cfg, adds, init_args>>

\* the calls a client makes: on the sessions ids with the utterances texts,
\* adding the tool lists added and removing the names removed
NextFor(ids, texts, added, removed) ==
    \/ \E s \in ids, d \in Deltas : Feed(s, d)
    \/ \E s \in ids, t \in texts : Submit(s, t)
    \/ \E s \in ids : Reset(s)
    \/ \E tools \in added : AddTools(tools)
    \/ \E name \in removed : RemoveTool(name)

\* two sessions on an engine built with the first keyword arguments
Init == InitFor(SessionArgs, {<<TA, TB, TM>>})

Next == NextFor(SessionIds, SessionTexts, {<<TA2>>}, {<<"t", "a">>, <<"z">>})

Spec == Init /\ [][Next]_vars

\* one session on an engine built with any of the keyword arguments
InitSuggest == InitFor(ArgsPool, InitialTools)

NextSuggest == NextFor({"s1"}, Texts, AddedTools, RemovedNames)

SpecSuggest == InitSuggest /\ [][NextSuggest]_vars

\* the catalog alone: longer sequences of add_tools and remove_tool
AddCatalog(tools) == AddToolsUpTo(tools, MaxCatalogAdds)

\* the arguments of ArgsPool and two more spellings of the default strategy
CatalogArgs ==
    ArgsPool \cup {[DefaultArgs EXCEPT !.combine_strategy = ""],
                   [DefaultArgs EXCEPT !.combine_strategy = "MAX"]}

InitCatalog == InitFor(CatalogArgs, InitialTools)

NextCatalog ==
    \/ \E tools \in AddedTools \cup {<<TB>>} : AddCatalog(tools)
    \/ \E name \in RemovedNames : RemoveTool(name)

SpecCatalog == InitCatalog /\ [][NextCatalog]_vars

\* the queries alone, on a fixed catalog: thresholds, strategies and the
\* bonus take more values, utterances have repeated and unmatched tokens
QueryTools == {<<TA, TB, TM>>, <<TA2, TB>>}

QueryTexts ==
    { <<"p">>,
      <<"b", "c", " ", "p">>,                     \* two adjacent anchors
      <<"p", " ", "p", " ", "p">>,                \* one anchor three times
      <<"d", " ", "z", " ", "p">>,                \* the anchor last, after unmatched tokens
      <<"d", " ", "z", " ", "b">>,                \* no anchor token
      <<"a", " ", "b", "c", " ", "p">>,           \* a stopword first
      <<"b", "c", " ", "z", " ", "p">>,           \* two anchors apart
      <<"d", " ", "e", " ", "p">> }               \* a separator

QueryArgs ==
    { DefaultArgs,
      [DefaultArgs EXCEPT !.require_anchor = FALSE, !.alpha = 150, !.anchor_alpha = 150],
      [DefaultArgs EXCEPT !.require_anchor = FALSE, !.alpha = -50, !.anchor_alpha = -50],
      [DefaultArgs EXCEPT !.combine_strategy = "sum", !.max_intents = 3, !.window_radius = 0,
                          !.min_score = 2 * ScoreUnit],
      [DefaultArgs EXCEPT !.combine_strategy = "sum", !.max_intents = 3, !.window_radius = 0,
                          !.multi_intent_bonus = 30000],
      [DefaultArgs EXCEPT !.max_intents = 3, !.window_radius = 0, !.require_anchor = FALSE,
                          !.multi_intent_bonus = 30000] }

InitQuery == InitFor(QueryArgs, QueryTools)

NextQuery ==
    \/ \E d \in Deltas : Feed("s1", d)
    \/ \E t \in QueryTexts : Submit("s1", t)
    \/ Reset("s1")

SpecQuery == InitQuery /\ [][NextQuery]_vars

(***************************************************************************)
(* Claims                                                                  *)
(***************************************************************************)
\* the utterance the last feed or submit ran the suggestion on
Queried == last_call.op \in {"feed", "submit"}

Utterance == sessions[last_call.session_id]

\* C1: the buffer of every session is the text of its most recent submit
\* (empty when feed created it) followed by the deltas fed since, in call
\* order; a session exists exactly when a feed or submit made it and no
\* reset removed it since.
C1_BufferIsSubmitThenDeltas ==
    /\ DOMAIN sessions = DOMAIN hist
    /\ \A s \in DOMAIN sessions : sessions[s] = hist[s].base \o Flatten(hist[s].fed)

\* a session fed after a submit, beside a session two different deltas made
C1_Witness ==
    \E s, t \in DOMAIN sessions :
        /\ hist[s].base # <<>> /\ hist[s].fed # <<>>
        /\ hist[t].base = <<>> /\ Len(hist[t].fed) = 2 /\ hist[t].fed[1] # hist[t].fed[2]

\* C2: the last of the feeds that built a session from nothing returns what
\* submit of the concatenated deltas returns on the same engine.
C2_FeedEqualsSubmitOfConcatenation ==
    (last_call.op = "feed" /\ hist[last_call.session_id].base = <<>>)
        => result = _suggest(Self, Flatten(hist[last_call.session_id].fed))

\* two deltas that split a term, fed to a new session, with a suggestion returned
C2_Witness ==
    /\ last_call.op = "feed"
    /\ hist[last_call.session_id] = [base |-> <<>>, fed |-> <<<<"b">>, <<"c">>>>]
    /\ result # <<>>

\* C3: reset(s) removes s and raises nothing; on a session that is absent
\* (never created, or already reset) it changes nothing of the engine; the
\* feed that follows starts from the empty buffer.
C3_ResetIdempotent ==
    [][ /\ last_call'.op = "reset" =>
            /\ last_call'.session_id \notin DOMAIN sessions'
            /\ raised' = "none"
            /\ \A s \in (DOMAIN sessions) \ {last_call'.session_id} :
                    s \in DOMAIN sessions' /\ sessions'[s] = sessions[s]
            /\ last_call'.session_id \notin DOMAIN sessions =>
                    /\ sessions' = sessions
                    /\ UNCHANGED <<catalog, trie, inv_index, anchor_vocab, cfg>>
        /\ (last_call'.op = "feed" /\ last_call.op = "reset" /\ last_call'.same_session) =>
            sessions'[last_call'.session_id] = hist'[last_call'.session_id].fed[1]
      ]_vars

\* a second reset of the same session in a row, another session still open
C3_Witness ==
    /\ last_call.op = "reset" /\ last_call.same_arg /\ last_call.same_session
    /\ sessions # <<>>

\* C10: a submit that repeats the text of the submit just before it, on the
\* same or on another session, returns the same suggestions in the same order.
C10_SubmitTwiceSameResult ==
    [][ (last_call'.op = "submit" /\ last_call'.same_arg) => result' = result ]_vars

\* the same text submitted twice in a row to one session, with suggestions
C10_Witness ==
    /\ last_call.op = "submit" /\ last_call.same_arg /\ last_call.same_session
    /\ Len(result) >= 2

(***************************************************************************)
(* Claims about the suggestions                                            *)
(***************************************************************************)
IsPrefix(p, t) == Len(p) <= Len(t) /\ SubSeq(t, 1, Len(p)) = p

\* the tokens of the utterance, as the tokenizer yields them
UtteranceTokens == Range(tokens(Utterance))

\* the terms a window queries the index with
WindowTerms(w) == Range(w.complete_terms) \cup prefix_terms_limit(trie, w.last_prefix, 64)

\* the top_k the engine passes to the index for each window
WindowTopK ==
    IF cfg.max_intents <= 1 THEN cfg.top_k ELSE Max2(cfg.top_k, cfg.top_k * cfg.max_intents)

\* the tool ids the index query of a window returns
Returned(w) ==
    LET q == WindowQuery(Self, w, WindowTopK) IN {q[i].tool_id : i \in DOMAIN q}

ReasonTerms(sug) == {sug.reason[k].term : k \in DOMAIN sug.reason}

\* C4 as stated: with require_anchor, an utterance none of whose tokens is in
\* the anchor vocabulary gets the empty list.
C4_NoAnchorTokenEmpty ==
    (Queried /\ cfg.require_anchor /\ UtteranceTokens \cap anchor_vocab = {})
        => result = <<>>

\* C4 amended: with require_anchor, an utterance none of whose tokens is in
\* the anchor vocabulary or a prefix of one of its terms gets the empty list.
C4_NoAnchorTokenOrPrefixEmpty ==
    (Queried /\ cfg.require_anchor
        /\ \A t \in UtteranceTokens : \A a \in anchor_vocab : ~IsPrefix(t, a))
        => result = <<>>

\* an utterance whose only token is indexed from a description alone
C4_Witness ==
    /\ Queried /\ cfg.require_anchor
    /\ \A t \in UtteranceTokens : \A a \in anchor_vocab : ~IsPrefix(t, a)
    /\ \E t \in UtteranceTokens : t \in DOMAIN inv_index.term_to_tools
    /\ result = <<>>

\* C5: with require_anchor, every suggested tool has a query term that occurs
\* in one of the anchor fields of its catalog entry; a tool matched only
\* through its description is never returned.
C5_AnchorFieldMatch ==
    (Queried /\ cfg.require_anchor) =>
        LET ws == _intent_windows(Self, Utterance)
            query_terms == UNION {WindowTerms(ws[i]) : i \in DOMAIN ws}
        IN \A i \in DOMAIN result :
              /\ result[i].id \in DOMAIN catalog
              /\ query_terms \cap _anchor_terms_from_fields(cfg.anchor_fields,
                        _extract_terms_by_field(catalog[result[i].id])) # {}

\* C6: the list returned is in non-increasing score order, has at most top_k
\* entries and holds each tool id at most once.
C6_RankedCutDistinct ==
    Queried =>
        /\ \A i, j \in DOMAIN result : i < j => result[i].score >= result[j].score
        /\ Len(result) <= cfg.top_k
        /\ \A i, j \in DOMAIN result : result[i].id = result[j].id => i = j

\* top_k suggestions of different scores, more tools indexed under the
\* tokens of the utterance than top_k
C6_Witness ==
    /\ Queried /\ cfg.top_k >= 2 /\ Len(result) = cfg.top_k
    /\ result[1].score > result[2].score
    /\ Cardinality(UNION {DOMAIN Get(inv_index.term_to_tools, t, <<>>) : t \in UtteranceTokens})
            > cfg.top_k

\* the set of tokens before the first separator token of the utterance
BeforeFirstSeparator ==
    LET toks == tokens(Utterance)
        seps == {i \in DOMAIN toks : toks[i] \in cfg.intent_separator_set}
    IN {toks[i] : i \in {j \in DOMAIN toks : \A k \in seps : j < k}}

\* C7 as stated: with max_intents = 1 every suggestion has a reason term that
\* a token before the first separator matched or completes to.
C7_NothingAfterFirstSeparator ==
    (Queried /\ cfg.max_intents = 1) =>
        \A i \in DOMAIN result :
            \E t \in ReasonTerms(result[i]) : \E k \in BeforeFirstSeparator : IsPrefix(k, t)

\* C7 amended: with max_intents = 1 the suggestions are those of the first
\* window in the order anchored windows first, then the others, each group
\* by position; their reason terms are terms of that window alone.
C7_FirstOrderedWindowOnly ==
    (Queried /\ cfg.max_intents = 1) =>
        LET o == ordered(Self, Utterance)
        IN IF o = <<>> THEN result = <<>>
           ELSE LET q == WindowQuery(Self, o[1], cfg.top_k)
                IN /\ [i \in DOMAIN result |-> result[i].id] = [i \in DOMAIN q |-> q[i].tool_id]
                   /\ \A i \in DOMAIN result : ReasonTerms(result[i]) \subseteq WindowTerms(o[1])

\* an unanchored intent, a separator, an anchored intent: the second is used
C7_Witness ==
    /\ Queried /\ cfg.max_intents = 1
    /\ \E t \in UtteranceTokens : t \in cfg.intent_separator_set
    /\ Len(ordered(Self, Utterance)) >= 2
    /\ ordered(Self, Utterance)[1] # windows(Self, Utterance)[1]
    /\ result # <<>>

\* no separator token and no "," or ";" in the utterance
NoSeparators ==
    /\ UtteranceTokens \cap cfg.intent_separator_set = {}
    /\ \A k \in DOMAIN Utterance : Utterance[k] \notin {",", ";"}

\* the positions of the anchor tokens of the utterance
AnchorPositions ==
    LET stream == tokens_with_spans(Utterance)
    IN {i \in 0 .. Len(stream) - 1 : stream[i + 1].tok \in anchor_vocab}

\* no two consecutive anchors are more than 2 * window_radius + 1 apart
AnchorsClose ==
    \A i, j \in AnchorPositions :
        (i < j /\ \A k \in AnchorPositions : ~(i < k /\ k < j))
            => j - i <= 2 * cfg.window_radius + 1

ReturnedTwice ==
    LET ws == _intent_windows(Self, Utterance)
    IN {id \in UNION {Returned(ws[i]) : i \in DOMAIN ws} :
            Cardinality({i \in DOMAIN ws : id \in Returned(ws[i])}) >= 2}

\* the fields term t contributed for tool id in any window
ContributedFields(id, t) ==
    LET ws == _intent_windows(Self, Utterance)
        qs == [i \in DOMAIN ws |-> WindowQuery(Self, ws[i], WindowTopK)]
    IN UNION {Get(qs[i][k].contributions, t, {}) :
                <<i, k>> \in {x \in (DOMAIN ws) \X (1 .. Cardinality(DOMAIN catalog)) :
                                x[2] \in DOMAIN qs[x[1]] /\ qs[x[1]][x[2]].tool_id = id}}

\* the terms that contributed for tool id in any window
ContributedTerms(id) ==
    {t \in DOMAIN inv_index.term_to_tools : ContributedFields(id, t) # {}}

\* C9 as stated: a tool that two or more windows return is suggested exactly
\* once.
C9_ReturnedTwiceSuggestedOnce ==
    Queried =>
        \A id \in ReturnedTwice : Cardinality({i \in DOMAIN result : result[i].id = id}) = 1

\* C9 amended: a tool that two or more windows return is suggested at most
\* once, and exactly once when the windows return no more than top_k tools
\* between them; where it is suggested its reason lists each term that
\* contributed in any window once, with the union of the fields.
C9_ReturnedTwiceMerged ==
    Queried =>
        LET ws == _intent_windows(Self, Utterance)
            all == UNION {Returned(ws[i]) : i \in DOMAIN ws}
        IN \A id \in ReturnedTwice :
            LET at == {i \in DOMAIN result : result[i].id = id}
            IN /\ Cardinality(at) <= 1
               /\ Cardinality(all) <= cfg.top_k => Cardinality(at) = 1
               /\ \A i \in at :
                    /\ ReasonTerms(result[i]) = ContributedTerms(id)
                    /\ \A k, m \in DOMAIN result[i].reason :
                            result[i].reason[k].term = result[i].reason[m].term => k = m
                    /\ \A k \in DOMAIN result[i].reason :
                            Range(result[i].reason[k].fields)
                                = ContributedFields(id, result[i].reason[k].term)

\* a tool two windows return under different terms, suggested with both
C9_Witness ==
    /\ Queried
    /\ \E id \in ReturnedTwice : \E i \in DOMAIN result :
            /\ result[i].id = id
            /\ Cardinality(ReasonTerms(result[i])) >= 2
            /\ \E j \in DOMAIN result : j # i

(***************************************************************************)
(* Claims about the catalog and the indexes                                *)
(***************************************************************************)
\* the terms of the fields of a catalog entry, as the engine extracts them
EntryTerms(tool) == _extract_terms_by_field(tool)

\* the number of occurrences of term across the fields of a catalog entry
Occurrences(tool, term) ==
    LET by_field == EntryTerms(tool)
        RECURSIVE Over(_)
        Over(fs) == IF fs = {} THEN 0
                    ELSE LET f == CHOOSE x \in fs : TRUE
                         IN Count(by_field[f], term) + Over(fs \ {f})
    IN Over(DOMAIN by_field)

\* the sum over the fields of the posting of term for tool
PostingSum(term, name) ==
    LET fmap == Get(Get(inv_index.term_to_tools, term, <<>>), name, <<>>)
        RECURSIVE Over(_)
        Over(fs) == IF fs = {} THEN 0
                    ELSE LET f == CHOOSE x \in fs : TRUE IN fmap[f] + Over(fs \ {f})
    IN Over(DOMAIN fmap)

\* C11: df[term] is the number of distinct tools whose postings hold the
\* term, and so at most the number of registered tools.
C11_DfCountsTools ==
    Constructed =>
        \A t \in DOMAIN inv_index.df :
            /\ inv_index.df[t] =
                 Cardinality({n \in DOMAIN Get(inv_index.term_to_tools, t, <<>>) :
                                  DOMAIN inv_index.term_to_tools[t][n] # {}})
            /\ inv_index.df[t] <= Cardinality(inv_index.tools)

\* C12: for every tool of the catalog and every term, the posting of the
\* term for the tool sums, over the fields, to the number of occurrences of
\* the term in the fields of the tool's catalog entry.
C12_PostingsCountOccurrences ==
    Constructed =>
        \A n \in DOMAIN catalog :
            \A t \in (DOMAIN inv_index.term_to_tools)
                        \cup UNION {Range(EntryTerms(catalog[n])[f]) : f \in Fields} :
                PostingSum(t, n) = Occurrences(catalog[n], t)

\* C13: the anchor vocabulary is the union, over the tools of the catalog,
\* of the normalized tokens of their anchor fields.
C13_AnchorVocabOfCatalog ==
    Constructed =>
        anchor_vocab = UNION {_anchor_terms_from_fields(cfg.anchor_fields, EntryTerms(catalog[n])) :
                                n \in DOMAIN catalog}

\* the engine __init__ builds from the arguments of this engine and the
\* entries of a catalog
FreshEngine(cat) ==
    LET names == SortedStrs(DOMAIN cat)
    IN NewEngine(init_args, [i \in DOMAIN names |-> cat[names[i]]])

\* C14: remove_tool of a name of the catalog leaves the trie, the inverted
\* index and the anchor vocabulary equal to those of a fresh engine built
\* with the same arguments from the remaining entries, and so every
\* utterance gets the suggestions the fresh engine gives.
C14_RemoveEqualsFresh ==
    [][ (last_call'.op = "remove_tool" /\ last_call'.catalog_arg \in DOMAIN catalog) =>
            LET fresh == FreshEngine(catalog')
            IN /\ DOMAIN catalog' = (DOMAIN catalog) \ {last_call'.catalog_arg}
               /\ \A n \in DOMAIN catalog' : catalog'[n] = catalog[n]
               /\ catalog' = fresh.catalog
               /\ trie' = fresh.trie
               /\ inv_index' = fresh.inv_index
               /\ anchor_vocab' = fresh.anchor_vocab
               /\ cfg' = fresh.cfg
      ]_vars

\* "ta" removed after it was added a second time with other fields
C14_Witness ==
    /\ last_call.op = "remove_tool" /\ last_call.catalog_arg = <<"t", "a">>
    /\ adds >= 1
    /\ <<"t", "a">> \notin DOMAIN catalog
    /\ <<"c", "b">> \notin anchor_vocab
    /\ catalog # <<>>

\* the terms inserted into the trie: the terminal nodes
Inserted == {p \in DOMAIN trie : trie[p].terminal}

\* C15: every term inserted into the trie is among prefix_terms(p), called
\* without a limit, for each of its non-empty prefixes p, whatever was
\* inserted after it.
C15_PrefixFindsTerm ==
    Constructed =>
        /\ \A n \in DOMAIN catalog : Range(_extract_terms(catalog[n])) \subseteq Inserted
        /\ \A t \in Inserted : \A k \in 1 .. Len(t) : t \in prefix_terms(trie, SubSeq(t, 1, k))

\* a prefix shared by several terms, one of them inserted by a later add_tools
C15_Witness ==
    /\ Constructed /\ adds >= 1
    /\ {<<"t", "a">>, <<"t", "b">>, <<"t", "m">>} \subseteq prefix_terms(trie, <<"t">>)
    /\ <<"c", "b">> \in prefix_terms(trie, <<"c">>)
    /\ <<"b", "c">> \in prefix_terms(trie, <<"b">>)

\* C16 as stated: a combine_strategy argument outside {"max", "sum"} makes
\* __init__ fail with a validation error, and no engine exists.
C16_StrategyOutsideSetFails ==
    init_args.combine_strategy \notin {"max", "sum"}
        => (raised = "ValueError" /\ ~Constructed)

\* C16 amended: __init__ fails with ValueError, and no engine exists, exactly
\* when the argument, with the empty value read as "max" and then
\* lower-cased, is outside {"max", "sum"}; otherwise the engine holds the
\* lower-cased strategy.
C16_LoweredStrategyOutsideSetFails ==
    LET strategy == StrategyLower(init_args.combine_strategy)
    IN IF strategy \notin {"max", "sum"}
       THEN /\ raised = "ValueError"
            /\ ~Constructed
            /\ sessions = <<>> /\ catalog = <<>> /\ last_call = NoCall
       ELSE /\ Constructed
            /\ raised # "ValueError"
            /\ cfg.combine_strategy = strategy

\* the construction with "avg" failed
C16_Witness ==
    /\ init_args.combine_strategy = "avg"
    /\ raised = "ValueError"
    /\ ~Constructed

\* the entry has a name that is not empty
HasName(tool) == "name" \in DOMAIN tool /\ tool.name # <<>>

\* C17: add_tools ignores every entry whose name is missing or empty: the
\* call raises nothing and leaves the catalog, the trie, the index and the
\* anchor vocabulary as the same call without those entries leaves them, so
\* the named entries of the call are added.
C17_NamelessEntriesIgnored ==
    [][ last_call'.op = "add_tools" =>
            LET tools == last_call'.catalog_arg
                named == SelectSeq(tools, HasName)
                only_named == add_tools(Self, named)
            IN /\ raised' = "none"
               /\ DOMAIN catalog' = (DOMAIN catalog) \cup {named[i].name : i \in DOMAIN named}
               /\ \A i \in DOMAIN named : named[i].name \in DOMAIN catalog'
               /\ \A n \in (DOMAIN catalog) \ {named[i].name : i \in DOMAIN named} :
                        catalog'[n] = catalog[n]
               /\ catalog' = only_named.catalog
               /\ trie' = only_named.trie
               /\ inv_index' = only_named.inv_index
               /\ anchor_vocab' = only_named.anchor_vocab
               /\ named = <<>> => UNCHANGED <<catalog, trie, inv_index, anchor_vocab>>
      ]_vars

\* a call with an entry without a name, one with the empty name and then a
\* named entry: the named one is in the catalog, the terms of the others
\* are nowhere
C17_Witness ==
    /\ last_call.op = "add_tools"
    /\ last_call.catalog_arg = <<TN, TE, TM>>
    /\ <<"t", "m">> \in DOMAIN catalog /\ catalog[<<"t", "m">>] = TM
    /\ <<>> \notin DOMAIN catalog
    /\ <<"z">> \notin anchor_vocab
    /\ <<"z">> \notin DOMAIN inv_index.term_to_tools
    /\ prefix_terms(trie, <<"z">>) = {}

(***************************************************************************)
(* Claims about the intent windows                                         *)
(***************************************************************************)
\* every token of the utterance is a stopword of the configured locales
OnlyStopwords ==
    /\ tokens(Utterance) # <<>>
    /\ \A t \in UtteranceTokens : t \in stopwords(cfg.locales)

\* C18: with drop_stopwords enabled, feed and submit return the empty list
\* for an utterance whose tokens are all stopwords of the configured
\* locales, whatever the catalog holds.
C18_OnlyStopwordsGivesNothing ==
    (Queried /\ cfg.drop_stopwords /\ OnlyStopwords) => result = <<>>

\* a stopword-only utterance while an anchor field of the catalog holds one
\* of its stopwords as an indexed term
C18_Witness ==
    /\ Queried /\ cfg.drop_stopwords /\ OnlyStopwords
    /\ \E t \in UtteranceTokens :
            /\ t \in anchor_vocab
            /\ Get(inv_index.term_to_tools, t, <<>>) # <<>>
    /\ result = <<>>

\* the token stream of the utterance and its segments
UtteranceStream == tokens_with_spans(Utterance)

UtteranceSegments == segments(Self, UtteranceStream, normalize(Utterance))

\* the token indices (0-based) that hold a separator token
SeparatorIndices ==
    {i \in 0 .. Len(UtteranceStream) - 1 : UtteranceStream[i + 1].tok \in cfg.intent_separator_set}

\* the segments that hold token index i
SegmentsOf(i) ==
    {k \in DOMAIN UtteranceSegments : UtteranceSegments[k][1] <= i /\ i < UtteranceSegments[k][2]}

\* every token that is not a separator is in exactly one segment and no
\* separator is in any
SeparatorsConsumed ==
    \A i \in 0 .. Len(UtteranceStream) - 1 :
        Cardinality(SegmentsOf(i)) = IF i \in SeparatorIndices THEN 0 ELSE 1

\* a segment starts at each token that follows a separator or a "," / ";"
\* gap, and at the first token, and nowhere else
SegmentStartsAtBoundaries ==
    {UtteranceSegments[k][1] : k \in DOMAIN UtteranceSegments}
        = {i \in (0 .. Len(UtteranceStream) - 1) \ SeparatorIndices :
                \/ i = 0
                \/ i - 1 \in SeparatorIndices
                \/ i \in punctuation_boundaries(UtteranceStream, normalize(Utterance))}

\* no window of the utterance holds a separator token
NoSeparatorInWindows ==
    LET ws == windows(Self, Utterance)
    IN \A k \in DOMAIN ws :
            (Range(ws[k].complete_terms) \cup {ws[k].last_prefix}) \cap cfg.intent_separator_set = {}

SegmentAnchors(seg) ==
    {i \in seg[1] .. seg[2] - 1 : UtteranceStream[i + 1].tok \in anchor_vocab}

\* the range of anchor index a in its segment
RangeStart(seg, a) == Max2(seg[1], a - cfg.window_radius)

RangeEnd(seg, a) == Min2(seg[2], a + cfg.window_radius + 1)

\* the pairs of consecutive anchors of a segment
ConsecutiveAnchors(seg) ==
    {p \in SegmentAnchors(seg) \X SegmentAnchors(seg) :
        p[1] < p[2] /\ ~\E x \in SegmentAnchors(seg) : p[1] < x /\ x < p[2]}

\* the ranges of consecutive anchors a < b are joined: they share a token
\* index (slack 0), or share one or touch (slack 1)
Joined(seg, a, b, slack) == RangeStart(seg, b) < RangeEnd(seg, a) + slack

\* one range per maximal run of consecutive anchors whose ranges are joined
MergedRanges(seg, slack) ==
    LET A == SegmentAnchors(seg)
        C == ConsecutiveAnchors(seg)
        run(a, b) ==
            /\ a <= b
            /\ \A p \in C : (a <= p[1] /\ p[2] <= b) => Joined(seg, p[1], p[2], slack)
            /\ \A p \in C : (p[2] = a \/ p[1] = b) => ~Joined(seg, p[1], p[2], slack)
    IN {<<RangeStart(seg, q[1]), RangeEnd(seg, q[2])>> : q \in {r \in A \X A : run(r[1], r[2])}}

\* the window ranges of every segment are, in position order, the ranges
\* of its anchors merged under the slack, or the segment when it has no anchor
WindowRangesAre(slack) ==
    \A k \in DOMAIN UtteranceSegments :
        LET seg == UtteranceSegments[k]
            wr == window_ranges(Self, UtteranceStream, seg)
        IN IF SegmentAnchors(seg) = {} THEN wr = <<seg>>
           ELSE /\ Range(wr) = MergedRanges(seg, slack)
                /\ \A i, j \in DOMAIN wr : i < j => wr[i][1] < wr[j][1]

\* C20 as stated: the ranges of two consecutive anchors of a segment are
\* merged into one window exactly when they share a token index; a segment
\* without anchors gives one window spanning the segment.
C20_MergedWhenOverlapping ==
    (Queried /\ UtteranceStream # <<>>) => WindowRangesAre(0)

\* C20 amended: the ranges of two consecutive anchors are merged exactly
\* when the later one starts at or before the end of the earlier one, that
\* is when they share a token index or are adjacent.
C20_MergedWhenOverlappingOrAdjacent ==
    (Queried /\ UtteranceStream # <<>>) => WindowRangesAre(1)

\* two anchors whose ranges are adjacent and share no index, in one window
C20_Witness ==
    /\ Queried /\ cfg.max_intents >= 2
    /\ \E k \in DOMAIN UtteranceSegments :
          LET seg == UtteranceSegments[k]
          IN /\ \E p \in ConsecutiveAnchors(seg) : RangeStart(seg, p[2]) = RangeEnd(seg, p[1])
             /\ Len(window_ranges(Self, UtteranceStream, seg)) = 1
    /\ Len(_intent_windows(Self, Utterance)) = 1

\* every window range is a non-empty range inside its segment
RangesInsideSegments ==
    \A k \in DOMAIN UtteranceSegments :
        LET seg == UtteranceSegments[k]
            wr == window_ranges(Self, UtteranceStream, seg)
        IN \A i \in DOMAIN wr : seg[1] <= wr[i][1] /\ wr[i][1] < wr[i][2] /\ wr[i][2] <= seg[2]

\* the window ranges of a segment are pairwise disjoint, in position order
RangesDisjointInOrder ==
    \A k \in DOMAIN UtteranceSegments :
        LET wr == window_ranges(Self, UtteranceStream, UtteranceSegments[k])
        IN \A i, j \in DOMAIN wr : i < j => wr[i][2] <= wr[j][1]

\* every anchor of a segment is in exactly one window range of the segment
AnchorsInOneRange ==
    \A k \in DOMAIN UtteranceSegments :
        LET seg == UtteranceSegments[k]
            wr == window_ranges(Self, UtteranceStream, seg)
        IN \A a \in SegmentAnchors(seg) :
                Cardinality({i \in DOMAIN wr : wr[i][1] <= a /\ a < wr[i][2]}) = 1

\* no window range holds a separator token, or tokens on both sides of a
\* "," / ";" boundary
NoRangeSpansSeparator ==
    LET rs == AllRanges(Self, Utterance)
    IN \A i \in DOMAIN rs :
            /\ \A idx \in rs[i][1] .. rs[i][2] - 1 : idx \notin SeparatorIndices
            /\ \A idx \in punctuation_boundaries(UtteranceStream, normalize(Utterance)) :
                    ~(rs[i][1] < idx /\ idx < rs[i][2])

UtteranceWindows == _intent_windows(Self, Utterance)

\* n is max(1, ceil(count * fraction)), the fraction in hundredths
IsCeilAtLeastOne(n, count, fraction) ==
    /\ n >= 1
    /\ 100 * n >= count * fraction
    /\ n = 1 \/ 100 * (n - 1) < count * fraction

\* the threshold _suggest passes to the index for window w: {} is none
PassedThreshold(w) == _min_complete_hits(cfg, w.anchor_hits, w.complete_terms)

\* the number of complete terms of window w that tool id has a posting for
MatchedComplete(w, id) ==
    Cardinality({t \in Range(w.complete_terms) :
                    id \in DOMAIN Get(inv_index.term_to_tools, t, <<>>)})

\* C22: the completion threshold of a window is none when complete_terms
\* is empty, else max(1, ceil(anchor_hits * max(0, anchor_alpha))) when
\* anchor_hits > 0, else max(1, ceil(|complete_terms| * clamp(alpha, 0, 1)));
\* the index returns no tool that matches fewer complete terms than it.
C22_ThresholdChosenAndEnforced ==
    Queried =>
        \A k \in DOMAIN UtteranceWindows :
            LET w == UtteranceWindows[k]
                th == PassedThreshold(w)
            IN /\ IF w.complete_terms = <<>> THEN th = {}
                  ELSE /\ Cardinality(th) = 1
                       /\ \A n \in th :
                            IF w.anchor_hits > 0
                            THEN IsCeilAtLeastOne(n, w.anchor_hits, Max2(0, cfg.anchor_alpha))
                            ELSE IsCeilAtLeastOne(n, Len(w.complete_terms),
                                                  Max2(0, Min2(100, cfg.alpha)))
               /\ \A id \in Returned(w) : \A n \in th : MatchedComplete(w, id) >= n

\* a tool with an anchor match and a score of min_score or more that matches
\* fewer complete terms than the threshold of the window, and is not returned
C22_Witness ==
    /\ Queried
    /\ \E k \in DOMAIN UtteranceWindows :
          LET w == UtteranceWindows[k]
              complete == Range(w.complete_terms)
              terms == complete \cup prefix_terms_limit(trie, w.last_prefix, 64)
          IN /\ w.anchor_hits > 0
             /\ \E id \in DOMAIN catalog :
                  LET c == Candidate(inv_index, id, terms, complete, cfg.anchor_fields)
                  IN /\ c.anchor_hit /\ c.score >= cfg.min_score
                     /\ \E n \in PassedThreshold(w) : c.matched_complete < n
                     /\ id \notin Returned(w)

\* C23: with the default alpha and anchor_alpha, the threshold of a window
\* with complete terms is at most the number of its distinct complete
\* terms, so the completion filter passes every tool that matches them all.
C23_ThresholdWithinCompleteTerms ==
    (Queried /\ cfg.alpha = DefaultArgs.alpha /\ cfg.anchor_alpha = DefaultArgs.anchor_alpha) =>
        \A k \in DOMAIN UtteranceWindows :
            LET w == UtteranceWindows[k]
                distinct == Cardinality(Range(w.complete_terms))
            IN w.complete_terms # <<>> =>
                /\ \A n \in PassedThreshold(w) : n <= distinct
                /\ \A id \in DOMAIN catalog :
                        MatchedComplete(w, id) = distinct
                            => \A n \in PassedThreshold(w) : MatchedComplete(w, id) >= n

\* the 0-based positions of the windows whose index query returned tool id
ReturningWindows(id) ==
    {i \in 0 .. Len(UtteranceWindows) - 1 : id \in Returned(UtteranceWindows[i + 1])}

\* the score the index query of the window at position i gave tool id
WindowScore(i, id) ==
    LET q == WindowQuery(Self, UtteranceWindows[i + 1], WindowTopK)
    IN q[CHOOSE k \in DOMAIN q : q[k].tool_id = id].score

\* the sum over the positions I of the window score times 1 / (i + 1)
RECURSIVE DecayedSum(_, _)
DecayedSum(I, id) ==
    IF I = {} THEN 0
    ELSE LET i == CHOOSE x \in I : TRUE
         IN WindowScore(i, id) \div (i + 1) + DecayedSum(I \ {i}, id)

\* the fused score of tool id as C24 states it
FusedScore(id) ==
    LET I == ReturningWindows(id)
        hits == Cardinality(I)
        base == IF cfg.combine_strategy = "max"
                THEN CHOOSE m \in {WindowScore(i, id) : i \in I} :
                        \A i \in I : WindowScore(i, id) <= m
                ELSE DecayedSum(I, id)
    IN base + IF hits > 1 /\ cfg.multi_intent_bonus # 0
              THEN cfg.multi_intent_bonus * (hits - 1) ELSE 0

\* C24: the score of a suggestion is, with "max", the maximum of the tool's
\* window scores; with "sum", the sum over the windows that returned it of
\* the score times 1 / (i + 1), i the position of the window in the ordered
\* window list; plus multi_intent_bonus * (hits - 1) when hits > 1 windows
\* returned it and the bonus is not zero.
C24_FusedScore ==
    Queried =>
        \A k \in DOMAIN result :
            /\ ReturningWindows(result[k].id) # {}
            /\ result[k].score = FusedScore(result[k].id)

\* "sum" with a bonus: a tool that the first and a later window returned
C24_Witness ==
    /\ Queried /\ cfg.combine_strategy = "sum" /\ cfg.multi_intent_bonus # 0
    /\ \E k \in DOMAIN result :
          /\ 0 \in ReturningWindows(result[k].id)
          /\ \E i \in ReturningWindows(result[k].id) \ {0} :
                result[k].score < WindowScore(0, result[k].id) + WindowScore(i, result[k].id)
                                        + cfg.multi_intent_bonus

\* C25 as stated: with multi_intent_bonus >= 0 and either strategy, every
\* suggestion has a score of min_score or more.
C25_ScoresAtLeastMinScore ==
    (Queried /\ cfg.multi_intent_bonus >= 0) =>
        \A k \in DOMAIN result : result[k].score >= cfg.min_score

\* the first position among the windows that returned tool id
FirstReturning(id) ==
    CHOOSE i \in ReturningWindows(id) : \A j \in ReturningWindows(id) : i <= j

\* C25 amended: with multi_intent_bonus >= 0, every suggestion has a score
\* of min_score or more in each window that returned it; its fused score is
\* min_score or more under "max", and under "sum" at least min_score times
\* 1 / (i + 1), i the position of the first window that returned it.
C25_WindowScoresAtLeastMinScore ==
    (Queried /\ cfg.multi_intent_bonus >= 0) =>
        \A k \in DOMAIN result :
            LET id == result[k].id
            IN /\ ReturningWindows(id) # {}
               /\ \A i \in ReturningWindows(id) : WindowScore(i, id) >= cfg.min_score
               /\ result[k].score >=
                    IF cfg.combine_strategy = "max" THEN cfg.min_score
                    ELSE cfg.min_score \div (FirstReturning(id) + 1)

\* "sum": a suggestion that only a later window returned, its fused score
\* under min_score
C25_Witness ==
    /\ Queried /\ cfg.multi_intent_bonus >= 0 /\ cfg.combine_strategy = "sum"
    /\ \E k \in DOMAIN result :
          /\ FirstReturning(result[k].id) >= 1
          /\ WindowScore(FirstReturning(result[k].id), result[k].id) >= cfg.min_score
          /\ result[k].score < cfg.min_score

(***************************************************************************)
(* Claims about the catalog and the sessions taken together                *)
(***************************************************************************)
\* the tool ids that have a posting in the inverted index
PostedIds ==
    UNION {DOMAIN inv_index.term_to_tools[t] : t \in DOMAIN inv_index.term_to_tools}

\* C26: after any sequence of add_tools and remove_tool the tool ids
\* registered in the inverted index are the catalog names, so every
\* suggestion's id is the name of a tool of the catalog and a removed tool
\* is never suggested.
C26_IndexedToolsAreCatalog ==
    Constructed =>
        /\ inv_index.tools = DOMAIN catalog
        /\ PostedIds \subseteq DOMAIN catalog
        /\ Queried => \A k \in DOMAIN result : result[k].id \in DOMAIN catalog

\* after an add_tools and the removal of "ta": an utterance with its
\* keyword gets other tools
C26_Witness ==
    /\ Queried /\ adds > 0
    /\ <<"t", "a">> \notin DOMAIN catalog
    /\ <<"b", "c">> \in UtteranceTokens
    /\ result # <<>>

\* the catalog, the trie, the index and the anchor vocabulary stay as they are
IndexesUnchanged ==
    /\ catalog' = catalog /\ trie' = trie
    /\ inv_index' = inv_index /\ anchor_vocab' = anchor_vocab

\* every session but s keeps its buffer, and none but s appears or disappears
OtherSessionsUnchanged(s) ==
    /\ (DOMAIN sessions') \ {s} = (DOMAIN sessions) \ {s}
    /\ \A x \in (DOMAIN sessions) \ {s} : sessions'[x] = sessions[x]

\* C27: feed, submit and reset on session s change only the buffer of s,
\* not the other buffers, the catalog, the trie, the index or the anchor
\* vocabulary; add_tools and remove_tool leave every buffer unchanged, and
\* remove_tool of a name that is not in the catalog changes nothing.
C27_Frame ==
    [][ /\ last_call'.op \in {"feed", "submit", "reset"}
            => IndexesUnchanged /\ OtherSessionsUnchanged(last_call'.session_id)
        /\ last_call'.op \in {"add_tools", "remove_tool"} => sessions' = sessions
        /\ (last_call'.op = "remove_tool" /\ last_call'.catalog_arg \notin DOMAIN catalog)
            => IndexesUnchanged /\ sessions' = sessions /\ cfg' = cfg ]_vars

\* one session was reset while the other holds its submitted utterance
C27_Witness ==
    /\ last_call.op = "reset"
    /\ last_call.session_id \notin DOMAIN sessions
    /\ \E x \in DOMAIN sessions :
            /\ x # last_call.session_id
            /\ sessions[x] # <<>>
            /\ sessions[x] = hist[x].base

====
